---- MODULE Spec2Model ----
(***************************************************************************)
(* A model of the EDGAR exhibit crawler of run.py: the memoized fetch      *)
(* (crawl_url, download_index, parse_index under cachier with hash_args),  *)
(* the index acquisition loop (download_indices), the exhibit downloader   *)
(* (download_exhibits) and the orchestrator (run).                         *)
(*                                                                         *)
(* Conventions.  Python's None is the empty sequence <<>> and a present    *)
(* value v is <<v>> wherever a value is optional.  A table cell is a       *)
(* record [t, v]: t is its Python type ("none", "bytes", "str", "int")     *)
(* and v its text.  hashlib.md5 is modelled as an injective function of    *)
(* its input (the string "md5:" followed by the input).                    *)
(***************************************************************************)
EXTENDS Integers, Sequences, FiniteSets, TLC

\* ------------------------------------------------------------------------
\* Bounds of the model
\* ------------------------------------------------------------------------
MaxFails == 2      \* a URL's fetch fails at most this many times before it succeeds
MaxCalls == 2      \* calls of download_exhibits / runs of the pipeline in one behaviour
PassCap == 5       \* the pass counters saturate here

Forever == 0 - 1    \* a fetch plan: the URL never becomes available

\* ------------------------------------------------------------------------
\* Strings
\* ------------------------------------------------------------------------
SecHost == "https://www.sec.gov"
ArchivesPrefix == "https://www.sec.gov/Archives/"
base_url == "https://www.sec.gov/Archives/edgar/full-index"

UserAgentA == "Acme Research admin@acme.example"
UserAgentZ == "zeta-bot ops@zeta.example"
UserAgents == {UserAgentA, UserAgentZ}
Session == "<LimiterSession>"

IndexUrl(year, quarter) ==
    base_url \o "/" \o ToString(year) \o "/QTR" \o ToString(quarter) \o "/master.zip"

\* The strings the model sorts, in Python's str order (code point order).
Lexicon == <<
    "Acme Research admin@acme.example",
    "https://www.sec.gov/Archives/edgar/data/11/0000000011-23-000001-index.html",
    "https://www.sec.gov/Archives/edgar/data/11/ex10-1.htm",
    "https://www.sec.gov/Archives/edgar/data/11/ex10-2.htm",
    "https://www.sec.gov/Archives/edgar/data/11/ex10-3.htm",
    "https://www.sec.gov/Archives/edgar/data/22/0000000022-23-000002-index.html",
    "https://www.sec.gov/Archives/edgar/data/22/ex10.htm",
    "https://www.sec.gov/Archives/edgar/data/33/0000000033-23-000003-index.html",
    "https://www.sec.gov/Archives/edgar/data/33/ex10.htm",
    "https://www.sec.gov/Archives/edgar/data/44/0000000044-23-000004-index.html",
    "https://www.sec.gov/Archives/edgar/data/55/0000000055-23-000005-index.html",
    "https://www.sec.gov/Archives/edgar/full-index/2022/QTR1/master.zip",
    "https://www.sec.gov/Archives/edgar/full-index/2022/QTR2/master.zip",
    "https://www.sec.gov/Archives/edgar/full-index/2022/QTR3/master.zip",
    "https://www.sec.gov/Archives/edgar/full-index/2022/QTR4/master.zip",
    "https://www.sec.gov/Archives/edgar/full-index/2023/QTR1/master.zip",
    "https://www.sec.gov/Archives/edgar/full-index/2023/QTR2/master.zip",
    "https://www.sec.gov/Archives/edgar/full-index/2023/QTR3/master.zip",
    "https://www.sec.gov/Archives/edgar/full-index/2023/QTR4/master.zip",
    "https://www.sec.gov/Archives/edgar/full-index/2024/QTR1/master.zip",
    "https://www.sec.gov/Archives/edgar/full-index/2024/QTR2/master.zip",
    "https://www.sec.gov/Archives/edgar/full-index/2024/QTR3/master.zip",
    "https://www.sec.gov/Archives/edgar/full-index/2024/QTR4/master.zip",
    "index_html_url=https://www.sec.gov/Archives/edgar/data/11/0000000011-23-000001-index.html",
    "url=https://www.sec.gov/Archives/edgar/data/11/ex10-1.htm",
    "verbose_cache=True",
    "zeta-bot ops@zeta.example" >>

Rank(s) == CHOOSE i \in 1..Len(Lexicon) : Lexicon[i] = s
StrLess(a, b) == Rank(a) < Rank(b)

RECURSIVE Insert(_, _)
Insert(x, s) ==
    IF s = <<>> THEN <<x>>
    ELSE IF StrLess(x, Head(s)) THEN <<x>> \o s
    ELSE <<Head(s)>> \o Insert(x, Tail(s))

\* sorted(...) of a list of strings
RECURSIVE Sorted(_)
Sorted(s) == IF s = <<>> THEN <<>> ELSE Insert(Head(s), Sorted(Tail(s)))

RECURSIVE SetToSeq(_)
SetToSeq(S) ==
    IF S = {} THEN <<>>
    ELSE LET x == CHOOSE y \in S : TRUE IN <<x>> \o SetToSeq(S \ {x})

\* sep.join(s)
RECURSIVE Join(_, _)
Join(s, sep) ==
    IF s = <<>> THEN ""
    ELSE IF Len(s) = 1 THEN s[1]
    ELSE s[1] \o sep \o Join(Tail(s), sep)

Md5(s) == "md5:" \o s

\* ------------------------------------------------------------------------
\* hash_args and the memoizer's key
\* ------------------------------------------------------------------------
HashExcluded == {"session", "user_agent"}

\* f"{key}={value}" for the keyword arguments hash_args keeps
KeptItems(kwargs) ==
    { k \o "=" \o kwargs[k] : k \in (DOMAIN kwargs) \ HashExcluded }

Signature(args, kwargs) ==
    Join(Sorted(args), ",") \o Join(Sorted(SetToSeq(KeptItems(kwargs))), ",")

hash_args(args, kwargs) == Md5(Signature(args, kwargs))

\* ------------------------------------------------------------------------
\* The remote site: what each URL serves when its fetch succeeds
\* ------------------------------------------------------------------------
None == <<>>
Some(v) == <<v>>
IsNone(x) == x = <<>>

\* An exception on its way up the call stack, where a value was expected.
Exc == <<"raise", "Exception">>
IsExc(x) == x = Exc

NoneCell == [t |-> "none", v |-> ""]
ExcCell == [t |-> "raise", v |-> "Exception"]
BytesCell(s) == [t |-> "bytes", v |-> s]
StrCell(s) == [t |-> "str", v |-> s]
IntCell(s) == [t |-> "int", v |-> s]
isna(c) == c.t = "none"

\* master.idx data lines (after the 11 header lines): CIK|Name|Type|Date|Filename,
\* the Filename field being stem + ".txt"
Filing(cik, name, type, date, stem) ==
    [cik |-> cik, name |-> name, type |-> type, date |-> date, stem |-> stem]

Filing1 == Filing("11", "Acme Corp", "10-K", "2023-02-01", "edgar/data/11/0000000011-23-000001")
Filing2 == Filing("22", "Bolt Inc", "4", "2023-02-02", "edgar/data/22/0000000022-23-000002")
Filing3 == Filing("33", "Crest plc", "8-K", "2023-05-03", "edgar/data/33/0000000033-23-000003")
Filing4 == Filing("44", "Dune LLC", "10-Q", "2023-05-04", "edgar/data/44/0000000044-23-000004")
Filing5 == Filing("55", "Echo SA", "8-K", "2023-05-05", "edgar/data/55/0000000055-23-000005")

Years == {2023}
Quarters == <<1, 2>>
IndexUrls == { IndexUrl(y, Quarters[i]) : y \in Years, i \in 1..Len(Quarters) }

MasterIdx(url) ==
    IF url = IndexUrl(2023, 1) THEN <<Filing1, Filing2>>
    ELSE IF url = IndexUrl(2023, 2) THEN <<Filing3, Filing4, Filing5>>
    ELSE <<>>

HtmlUrlOf(f) == ArchivesPrefix \o f.stem \o "-index.html"
TextUrlOf(f) == ArchivesPrefix \o f.stem \o ".txt"

\* A row of the "Document Format Files" table: five cells; the link cell holds
\* an anchor (href, text) or none; the type cell is its characters.
Row(seq, desc, href, text, type, size) ==
    [seq |-> seq, desc |-> desc, href |-> href, text |-> text, type |-> type, size |-> size]

Page1Rows == <<
    Row("1", "10-K", Some("/Archives/edgar/data/11/form10k.htm"), "form10k.htm",
        <<"1", "0", "-", "K">>, "9"),
    Row("2", "CREDIT AGREEMENT", Some("/Archives/edgar/data/11/ex10-1.htm"), "ex10-1.htm",
        <<"E", "X", "-", "1", "0", ".", "1">>, "1"),
    Row("3", "LEASE", Some("/Archives/edgar/data/11/ex10-2.htm"), "ex10-2.htm",
        <<"E", "X", "-", "1", "0", ".", "2">>, "2"),
    Row("4", "BONUS PLAN", Some("/Archives/edgar/data/11/ex10-3.htm"), "ex10-3.htm",
        <<"e", "x", "-", "1", "0", ".", "3">>, "3"),
    Row("5", "XBRL", Some("/Archives/edgar/data/11/x.xml"), "x.xml",
        <<"E", "X", "-", "1", "0", "1">>, "5"),
    Row("6", "SEVERANCE", None, "", <<"E", "X", "-", "1", "0", ".", "4">>, "7") >>

Page2Rows == <<
    Row("1", "4", Some("/Archives/edgar/data/22/form4.xml"), "form4.xml", <<"4">>, "2"),
    Row("2", "AGREEMENT", Some("/Archives/edgar/data/22/ex10.htm"), "ex10.htm",
        <<"E", "X", "-", "1", "0", ".", "1">>, "3") >>

Page3Rows == <<
    Row(" ", "AGREEMENT", Some("/Archives/edgar/data/33/ex10.htm"), "ex10.htm",
        <<"E", "X", "-", "1", "0">>, "4") >>

Page4Rows == <<
    Row("1", "10-Q", Some("/Archives/edgar/data/44/form10q.htm"), "form10q.htm",
        <<"1", "0", "-", "Q">>, "8"),
    Row("2", "PLAN OF MERGER", Some("/Archives/edgar/data/44/ex2.htm"), "ex2.htm",
        <<"E", "X", "-", "2">>, "6") >>

\* The page a filing index URL serves: whether the table is there, and its
\* data rows (the header row already skipped, table.find_all("tr")[1:]).
HtmlPage(url) ==
    IF url = HtmlUrlOf(Filing1) THEN [table |-> TRUE, rows |-> Page1Rows]
    ELSE IF url = HtmlUrlOf(Filing2) THEN [table |-> TRUE, rows |-> Page2Rows]
    ELSE IF url = HtmlUrlOf(Filing3) THEN [table |-> TRUE, rows |-> Page3Rows]
    ELSE IF url = HtmlUrlOf(Filing4) THEN [table |-> TRUE, rows |-> Page4Rows]
    ELSE [table |-> FALSE, rows |-> <<>>]

PageUrls == { HtmlUrlOf(Filing1), HtmlUrlOf(Filing3), HtmlUrlOf(Filing4), HtmlUrlOf(Filing5) }

DocUrls == { "https://www.sec.gov/Archives/edgar/data/11/ex10-1.htm",
             "https://www.sec.gov/Archives/edgar/data/11/ex10-2.htm",
             "https://www.sec.gov/Archives/edgar/data/11/ex10-3.htm",
             "https://www.sec.gov/Archives/edgar/data/33/ex10.htm" }

\* The page and the exhibit of the filing whose type the filter does not allow.
OtherUrls == { HtmlUrlOf(Filing2), "https://www.sec.gov/Archives/edgar/data/22/ex10.htm" }

Urls == IndexUrls \cup PageUrls \cup DocUrls \cup OtherUrls

\* response.content of a successful request
Content(url) == "content of " \o url

\* ------------------------------------------------------------------------
\* State
\* ------------------------------------------------------------------------
VARIABLES
    fold,           \* TRUE: the memoizer names positional arguments by the signature
                    \* before it calls hash_func (cachier >= 2.3); FALSE: it hands
                    \* hash_func the call's args and kwargs as they were written
    plan,           \* url -> how many times its fetch fails before it succeeds
    failsLeft,      \* url -> failures still to come (Forever: always)
    cache,          \* .cache: function name -> (key -> stored value)
    files,          \* exhibits/: md5 -> the lines of <md5>.jsonl
    fetched,        \* the URLs requested from the network since the current call began
    pc,             \* position of the program
    \* download_exhibits
    records, md5, user_agent, skip,
    exhibits,       \* the DataFrame being filled
    retry_rows,     \* the rows the current retry pass iterates over
    i,              \* position in retry_rows
    passes,         \* passes over the batch made by the current call
    writes,         \* to_json calls made by the current call
    result,         \* the value returned by the last call
    entry,          \* what the current call found on disk: [existed, loaded]
    calls,          \* calls / runs started so far
    \* download_indices
    now,            \* datetime.now(): [year, month]
    request,        \* [start_year, end_year, quarters]
    todo,           \* the URLs the current pass has still to request
    output, failed_indices, results,
    di_passes,      \* passes made by the current call (the first one included)
    di_result,      \* the call's outcome: [state, df]
    \* run
    pages,          \* the filing index pages the orchestrator has still to visit
    parsed,         \* what parse_index returned for the current page
    curr,           \* the running count of exhibits found
    \* a single memoized call
    lastCall,       \* [f, form, url, ua, key, hit, val]
    \* a single application of a function without side effects
    applied         \* [f, in, out]: out is set when f has been applied to in

envVars == <<fold, plan, failsLeft, cache, files, fetched>>
deVars == <<records, md5, user_agent, skip, exhibits, retry_rows, i, passes, writes,
            result, entry>>
diVars == <<now, request, todo, output, failed_indices, results, di_passes, di_result>>
runVars == <<pages, parsed, curr>>
vars == <<envVars, pc, deVars, calls, diVars, runVars, lastCall, applied>>

Min(a, b) == IF a < b THEN a ELSE b
Sat(n) == Min(n + 1, PassCap)

\* The network and cache state that the memoized functions thread through.
St == [cache |-> cache, failsLeft |-> failsLeft, fetched |-> fetched]

\* ------------------------------------------------------------------------
\* The fetch client and the memoizer
\* ------------------------------------------------------------------------
\* session.get(url=url, ...): raises while the URL's failures last, returns the
\* response afterwards (line 43).
SessionGet(st, url) ==
    IF st.failsLeft[url] = 0
    THEN [st |-> [st EXCEPT !.fetched = @ \cup {url}], val |-> Some(Content(url))]
    ELSE [st |-> [st EXCEPT !.fetched = @ \cup {url},
                            !.failsLeft[url] = IF @ > 0 THEN @ - 1 ELSE @],
          val |-> Exc]

\* Faulty variant of CrawlBody: the exception of session.get is not caught.
CrawlBodyUncaught(st, url) == SessionGet(st, url)

\* The body of crawl_url, lines 42-47: try / except Exception -> None.
CrawlBody(st, url) ==
    LET r == SessionGet(st, url)
    IN IF IsExc(r.val) THEN [st |-> r.st, val |-> None] ELSE r

CachierControl == {"ignore_cache", "overwrite_cache", "verbose_cache"}

Params(f) ==
    IF f = "parse_index" THEN <<"index_html_url", "user_agent", "session">>
    ELSE <<"url", "user_agent", "session">>

Restrict(fn, S) == [k \in S |-> fn[k]]

\* The positional arguments named by the function's signature, merged with the
\* keyword arguments.
AsKwargs(f, args, kwargs) ==
    LET named == { Params(f)[n] : n \in 1..Len(args) }
    IN [k \in named \cup DOMAIN kwargs |->
            IF k \in DOMAIN kwargs THEN kwargs[k]
            ELSE args[CHOOSE n \in 1..Len(args) : Params(f)[n] = k]]

\* The key the memoizer looks a call up under: hash_func of the call's arguments,
\* its own control keywords removed.
KeyUnder(fo, f, args, kwargs) ==
    LET kw == Restrict(kwargs, (DOMAIN kwargs) \ CachierControl)
    IN IF fo THEN hash_args(<<>>, AsKwargs(f, args, kw)) ELSE hash_args(args, kw)

CacheKey(f, args, kwargs) == KeyUnder(fold, f, args, kwargs)

\* Faulty variant of CachierLookup: the store is never consulted.
CachierMiss(f, key, st) == None

\* @cachier(allow_none=False, hash_func=hash_args): a stored value is returned
\* without calling the function ...
CachierLookup(f, key, st) ==
    IF key \in DOMAIN st.cache[f] THEN Some(st.cache[f][key]) ELSE None

\* ... otherwise the function runs and its result r is stored unless it is None;
\* an exception of the function passes through the decorator.
CachierStore(f, key, r) ==
    IF IsNone(r.val) \/ IsExc(r.val) THEN r
    ELSE [st |-> [r.st EXCEPT !.cache[f] = (key :> r.val[1]) @@ @], val |-> r.val]

\* crawl_url(url, user_agent, session=session), lines 40-47
CrawlKey(url, ua) == CacheKey("crawl_url", <<url, ua>>, [session |-> Session])

crawl_url(st, url, ua) ==
    LET hit == CachierLookup("crawl_url", CrawlKey(url, ua), st)
    IN IF ~IsNone(hit) THEN [st |-> st, val |-> hit]
       ELSE CachierStore("crawl_url", CrawlKey(url, ua), CrawlBody(st, url))

\* ------------------------------------------------------------------------
\* parse_index: the exhibit rows of a filing index page
\* ------------------------------------------------------------------------
LowerLetters == <<"a", "b", "c", "d", "e", "f", "g", "h", "i", "j", "k", "l", "m",
                  "n", "o", "p", "q", "r", "s", "t", "u", "v", "w", "x", "y", "z">>
UpperLetters == <<"A", "B", "C", "D", "E", "F", "G", "H", "I", "J", "K", "L", "M",
                  "N", "O", "P", "Q", "R", "S", "T", "U", "V", "W", "X", "Y", "Z">>

UpperChar(c) ==
    IF \E n \in 1..26 : LowerLetters[n] = c
    THEN UpperLetters[CHOOSE n \in 1..26 : LowerLetters[n] = c]
    ELSE c

\* str.upper() and str.startswith() on a string given as its characters
Upper(cs) == [n \in 1..Len(cs) |-> UpperChar(cs[n])]
StartsWith(cs, prefix) ==
    Len(cs) >= Len(prefix) /\ SubSeq(cs, 1, Len(prefix)) = prefix

Ex10 == <<"E", "X", "-", "1", "0">>

\* Faulty variant of DocTypeMatches: the dot after "EX-10" is not asked for.
DocTypeMatchesAnyPrefix(type) == StartsWith(Upper(type), Ex10)

\* line 194 (negated): the row is kept
DocTypeMatches(type) ==
    Upper(type) = Ex10 \/ StartsWith(Upper(type), Ex10 \o <<".">>)

ExhibitRecord(index_html_url, row) ==
    [ index_html_url |-> StrCell(index_html_url),
      seq |-> StrCell(row.seq),
      desc |-> StrCell(row.desc),
      doc_link |-> StrCell(SecHost \o row.href[1]),
      doc_type |-> StrCell(Join(row.type, "")),
      size |-> StrCell(row.size),
      filename |-> StrCell(row.text) ]

\* lines 191-211: the loop over the table's data rows
RECURSIVE ExhibitRows(_, _)
ExhibitRows(index_html_url, rows) ==
    IF rows = <<>> THEN <<>>
    ELSE LET row == Head(rows)
             rest == ExhibitRows(index_html_url, Tail(rows))
         IN IF ~DocTypeMatches(row.type) THEN rest
            ELSE IF IsNone(row.href) THEN rest
            ELSE <<ExhibitRecord(index_html_url, row)>> \o rest

\* Lines 185-213: the records located on a fetched page, None when it holds no
\* "Document Format Files" table.
LocatedOn(index_html_url, page) ==
    IF ~page.table THEN None ELSE Some(ExhibitRows(index_html_url, page.rows))

\* The body of parse_index, lines 181-214: (results, md5), results None when the
\* page could not be fetched or holds no table.
ParseIndexBody(st, index_html_url, ua) ==
    LET r == crawl_url(st, index_html_url, ua)
        page == HtmlPage(index_html_url)
    IN IF IsExc(r.val) THEN r
       ELSE IF IsNone(r.val) THEN [st |-> r.st, val |-> Some(<<None, Md5(index_html_url)>>)]
       ELSE [st |-> r.st,
             val |-> Some(<<LocatedOn(index_html_url, page), Md5(index_html_url)>>)]

ParseKey(url, ua) == CacheKey("parse_index", <<url, ua>>, [session |-> Session])

\* parse_index(url, user_agent, session=session) under @cachier, lines 174-180
parse_index(st, index_html_url, ua) ==
    LET hit == CachierLookup("parse_index", ParseKey(index_html_url, ua), st)
    IN IF ~IsNone(hit) THEN [st |-> st, val |-> hit]
       ELSE CachierStore("parse_index", ParseKey(index_html_url, ua),
                         ParseIndexBody(st, index_html_url, ua))

\* ------------------------------------------------------------------------
\* DataFrame.to_json(orient="records", lines=True) and pd.read_json
\* ------------------------------------------------------------------------
MaxNumber == 9     \* the numerals the model's cells hold are 0..MaxNumber

IsNumeric(s) == \E n \in 0..MaxNumber : ToString(n) = s
Canonical(s) == ToString(CHOOSE n \in 0..MaxNumber : ToString(n) = s)

JsonOf(cell) ==
    IF cell.t = "none" THEN [j |-> "null", v |-> ""]
    ELSE IF cell.t = "int" THEN [j |-> "number", v |-> cell.v]
    ELSE [j |-> "string", v |-> cell.v]

to_json(df) == [n \in 1..Len(df) |-> [c \in DOMAIN df[n] |-> JsonOf(df[n][c])]]

\* read_json infers each column's dtype: a column whose values all read as
\* numbers becomes numeric, also when the file holds them as strings.
NumericColumn(lines, c) ==
    \A n \in 1..Len(lines) :
        \/ lines[n][c].j = "number"
        \/ lines[n][c].j = "string" /\ IsNumeric(lines[n][c].v)

CellOf(lines, n, c) ==
    IF lines[n][c].j = "null" THEN NoneCell
    ELSE IF NumericColumn(lines, c) THEN IntCell(Canonical(lines[n][c].v))
    ELSE IF lines[n][c].j = "number" THEN IntCell(lines[n][c].v)
    ELSE StrCell(lines[n][c].v)

read_json(lines) == [n \in 1..Len(lines) |-> [c \in DOMAIN lines[n] |-> CellOf(lines, n, c)]]


\* ------------------------------------------------------------------------
\* download_exhibits, lines 217-248
\* ------------------------------------------------------------------------
\* Faulty variant of ContentCell: the fetched body is dropped.
ContentCellLost(val) == NoneCell

ContentCell(val) == IF IsNone(val) THEN NoneCell ELSE BytesCell(val[1])

\* An exception left the lambda of line 236.
Raises(col) == \E n \in 1..Len(col) : col[n] = ExcCell

\* records["doc_link"].map(lambda x: crawl_url(x, user_agent, session=session))
RECURSIVE MapCrawl(_, _, _)
MapCrawl(st, recs, ua) ==
    IF recs = <<>> THEN [st |-> st, col |-> <<>>]
    ELSE LET r == crawl_url(st, Head(recs).doc_link.v, ua)
             rest == MapCrawl(r.st, Tail(recs), ua)
         IN IF IsExc(r.val) THEN [st |-> r.st, col |-> <<ExcCell>>]
            ELSE [st |-> rest.st, col |-> <<ContentCell(r.val)>> \o rest.col]

WithContent(rec, cell) == [c \in (DOMAIN rec) \cup {"doc_content"} |->
                              IF c = "doc_content" THEN cell ELSE rec[c]]

\* exhibits[exhibits.doc_content.isna()]
NaRows(df) == SelectSeq(df, LAMBDA row : isna(row.doc_content))

\* exhibits.loc[exhibits.index_html_url == row["index_html_url"], "doc_content"] = value
LocAssign(df, row, cell) ==
    [n \in 1..Len(df) |->
        IF df[n].index_html_url = row.index_html_url
        THEN [df[n] EXCEPT !.doc_content = cell] ELSE df[n]]

FileExists(key) == key \in DOMAIN files

\* Faulty variant of SkipBranch: the flag is read the wrong way round.
SkipBranchInverted(key, sk) == FileExists(key) /\ ~sk

\* line 229: os.path.exists(...) and skip
SkipBranch(key, sk) == FileExists(key) /\ sk

\* Faulty variant of LoopContinues: the retry loop is never entered.
LoopNever(df) == FALSE

\* line 240: len(exhibits[exhibits.doc_content.isna()]) > 0
LoopContinues(df) == Len(NaRows(df)) > 0

\* What a call finds on disk under its key when it begins.
OnDisk(key) ==
    [existed |-> FileExists(key),
     loaded |-> IF FileExists(key) THEN read_json(files[key]) ELSE <<>>]

\* Lines 226-238: the early return, the skip branch or the first pass.
\* f0 is the set of requests already counted when the call begins.
DE_Begin(recs, key, ua, sk, f0) ==
    /\ records' = recs /\ md5' = key /\ user_agent' = ua /\ skip' = sk
    /\ retry_rows' = <<>> /\ i' = 0 /\ writes' = 0
    /\ entry' = OnDisk(key)
    /\ UNCHANGED <<fold, plan, files>>
    /\ IF Len(recs) = 0
       THEN /\ result' = [returned |-> TRUE, value |-> None]
            /\ exhibits' = <<>> /\ passes' = 0
            /\ fetched' = f0
            /\ pc' = "returned"
            /\ UNCHANGED <<failsLeft, cache>>
       ELSE /\ result' = [returned |-> FALSE, value |-> None]
            /\ IF SkipBranch(key, sk)
               THEN /\ exhibits' = read_json(files[key])
                    /\ pc' = "de_test"
                    /\ passes' = 0
                    /\ fetched' = f0
                    /\ UNCHANGED <<failsLeft, cache>>
               ELSE LET m == MapCrawl([St EXCEPT !.fetched = f0], recs, ua)
                    IN /\ exhibits' = IF Raises(m.col) THEN <<>>
                                      ELSE [n \in 1..Len(recs) |->
                                                WithContent(recs[n], m.col[n])]
                       /\ pc' = IF Raises(m.col) THEN "de_raised" ELSE "de_test"
                       /\ passes' = 1
                       /\ cache' = m.st.cache
                       /\ failsLeft' = m.st.failsLeft
                       /\ fetched' = m.st.fetched

\* Line 240: the loop test; line 242 takes the rows of the pass.
DE_Test ==
    /\ pc = "de_test"
    /\ IF LoopContinues(exhibits)
       THEN /\ retry_rows' = NaRows(exhibits)
            /\ i' = 1
            /\ passes' = Sat(passes)
            /\ pc' = "de_retry"
       ELSE /\ pc' = "de_write"
            /\ UNCHANGED <<retry_rows, i, passes>>
    /\ UNCHANGED <<envVars, records, md5, user_agent, skip, exhibits, writes, result,
                   entry, calls, diVars, runVars, lastCall, applied>>

\* Lines 242-245: one iteration of the retry pass.
DE_Retry ==
    /\ pc = "de_retry"
    /\ LET row == retry_rows[i]
           r == crawl_url(St, row.doc_link.v, user_agent)
       IN /\ exhibits' = IF IsExc(r.val) THEN exhibits
                         ELSE LocAssign(exhibits, row, ContentCell(r.val))
          /\ cache' = r.st.cache
          /\ failsLeft' = r.st.failsLeft
          /\ fetched' = r.st.fetched
          /\ pc' = IF IsExc(r.val) THEN "de_raised"
                   ELSE IF i = Len(retry_rows) THEN "de_test" ELSE "de_retry"
    /\ i' = i + 1
    /\ UNCHANGED <<fold, plan, files, records, md5, user_agent, skip, retry_rows,
                   passes, writes, result, entry, calls, diVars, runVars, lastCall, applied>>

\* Lines 247-248.
DE_Write ==
    /\ pc = "de_write"
    /\ files' = (md5 :> to_json(exhibits)) @@ files
    /\ writes' = writes + 1
    /\ result' = [returned |-> TRUE, value |-> Some(exhibits)]
    /\ pc' = "returned"
    /\ UNCHANGED <<fold, plan, failsLeft, cache, fetched, records, md5, user_agent, skip,
                   exhibits, retry_rows, i, passes, entry, calls, diVars, runVars, lastCall, applied>>

\* ------------------------------------------------------------------------
\* Specification of the exhibit downloader: download_exhibits is called up to
\* MaxCalls times on the batch that parse_index yields for one page.
\* ------------------------------------------------------------------------
EmptyCache == [f \in {"crawl_url", "download_index", "parse_index"} |-> <<>>]

BatchPages == { HtmlUrlOf(Filing1), HtmlUrlOf(Filing3), HtmlUrlOf(Filing4) }
BatchOf(page) == ExhibitRows(page, HtmlPage(page).rows)
DocsOf(batch) == { batch[n].doc_link.v : n \in 1..Len(batch) }

\* The fetch plans that make only the URLs of S fail.
Plans(S) == { [u \in Urls |-> IF u \in S THEN p[u] ELSE 0] :
                  p \in [S -> (0..MaxFails) \cup {Forever}] }

Today == [year |-> 2023, month |-> 5]
DefaultQuarters == <<1, 2, 3, 4>>

IdleIndices ==
    /\ now = Today
    /\ request = [start_year |-> 2023, end_year |-> 2023, quarters |-> DefaultQuarters]
    /\ todo = <<>> /\ output = <<>> /\ failed_indices = <<>> /\ results = <<>>
    /\ di_passes = 0
    /\ di_result = [state |-> "none", df |-> <<>>]

IdleRun == pages = <<>> /\ parsed = None /\ curr = 0

NoApplied == [f |-> "", in |-> <<>>, out |-> <<>>]

NoCall == [f |-> "", form |-> "", url |-> "", ua |-> "", key |-> "", hit |-> FALSE, val |-> None]

IdleExhibits ==
    /\ records = <<>> /\ md5 = "" /\ user_agent = UserAgentA /\ skip = TRUE
    /\ exhibits = <<>> /\ retry_rows = <<>> /\ i = 0 /\ passes = 0 /\ writes = 0
    /\ result = [returned |-> FALSE, value |-> None]
    /\ entry = [existed |-> FALSE, loaded |-> <<>>]

InitExhibits ==
    /\ fold \in BOOLEAN
    /\ \E page \in BatchPages :
          /\ records = BatchOf(page)
          /\ md5 = Md5(page)
          /\ plan \in Plans(DocsOf(BatchOf(page)))
    /\ failsLeft = plan
    /\ cache = EmptyCache
    /\ files = <<>>
    /\ fetched = {}
    /\ pc = "idle"
    /\ user_agent = UserAgentA /\ skip = TRUE
    /\ exhibits = <<>> /\ retry_rows = <<>> /\ i = 0 /\ passes = 0 /\ writes = 0
    /\ result = [returned |-> FALSE, value |-> None]
    /\ entry = [existed |-> FALSE, loaded |-> <<>>]
    /\ calls = 0
    /\ IdleIndices /\ IdleRun /\ lastCall = NoCall /\ applied = NoApplied

DE_Call ==
    /\ pc \in {"idle", "returned"}
    /\ calls < MaxCalls
    /\ calls' = calls + 1
    /\ \E ua \in UserAgents, sk \in BOOLEAN : DE_Begin(records, md5, ua, sk, {})
    /\ UNCHANGED <<diVars, runVars, lastCall, applied>>

NextExhibits == DE_Call \/ DE_Test \/ DE_Retry \/ DE_Write

SpecExhibits == InitExhibits /\ [][NextExhibits]_vars

\* The same, with the progress a sequential program makes: a call that has begun
\* keeps executing its statements.
SpecExhibitsFair == SpecExhibits /\ WF_vars(DE_Test \/ DE_Retry \/ DE_Write)

\* ------------------------------------------------------------------------
\* Properties of download_exhibits
\* ------------------------------------------------------------------------
AllHaveContent(df) == \A n \in 1..Len(df) : ~isna(df[n].doc_content)
Returned == pc = "returned" /\ result.returned
BatchPlan == { plan[u] : u \in DocsOf(records) }
MaxOf(S) == CHOOSE x \in S : \A y \in S : y <= x

\* C1 (as claimed): the batch file is written only when every record has content,
\* and a call whose batch holds a document that never becomes available writes
\* no file.
C1_NoPartialBatch ==
    (pc = "returned" /\ writes > 0) =>
        /\ AllHaveContent(exhibits)
        /\ Forever \notin BatchPlan

\* C2 (as claimed): during the retry loop, a record whose doc_content is present
\* keeps that doc_content.
C2_ContentNeverOverwritten ==
    [][pc = "de_retry" =>
         \A n \in 1..Len(exhibits) :
             ~isna(exhibits[n].doc_content) =>
                 exhibits'[n].doc_content = exhibits[n].doc_content]_vars

\* C3: when no document of the batch fails more than N times, a call makes at most
\* N+1 passes over the batch, returns, and every record has content when it does.
C3_ExhibitsConverge ==
    /\ [](Forever \notin BatchPlan /\ Len(records) > 0 =>
              /\ passes <= MaxOf(BatchPlan) + 1
              /\ (Returned => AllHaveContent(result.value[1])))
    /\ (Forever \notin BatchPlan => []<>(pc \in {"idle", "returned"}))

C3_Witness ==
    /\ Returned /\ Len(records) = 3
    /\ MaxOf(BatchPlan) = MaxFails
    /\ passes = MaxFails + 1
    /\ AllHaveContent(result.value[1])

\* C9: a call with skip enabled that finds a batch file for its key returns the
\* batch loaded from that file and requests nothing from the network.
C9_SkipExisting ==
    (Returned /\ skip /\ entry.existed) =>
        /\ fetched = {}
        /\ result.value = Some(entry.loaded)

C9_Witness ==
    /\ Returned /\ skip /\ entry.existed
    /\ Len(entry.loaded) = 3
    /\ \E u \in DocsOf(records) : plan[u] > 0

\* C10 (as claimed): every call has written the batch exactly once when it returns,
\* all records having content.
C10_WritesExactlyOnce ==
    Returned => writes = 1 /\ AllHaveContent(exhibits)

\* C10 (amended): a call writes at most once; the write is its last statement and
\* happens with every record having content; a call that returns has written
\* once if its batch is non-empty and not at all if its batch is empty.
C10_WritesOnceWhenNonEmpty ==
    /\ writes <= 1
    /\ writes = 1 => /\ pc = "returned"
                     /\ AllHaveContent(exhibits)
                     /\ files[md5] = to_json(exhibits)
    /\ Returned => writes = (IF Len(records) = 0 THEN 0 ELSE 1)

C10_Witness ==
    /\ Returned /\ writes = 1 /\ Len(records) = 3
    /\ \E u \in DocsOf(records) : plan[u] = MaxFails

\* ------------------------------------------------------------------------
\* download_index, lines 49-71
\* ------------------------------------------------------------------------
\* One record per data line: the line, and its last field with ".txt" replaced
\* by "-index.html".
IndexRecord(f) == [original |-> f, index_html_url |-> f.stem \o "-index.html"]
IndexFrame(url) == [n \in 1..Len(MasterIdx(url)) |-> IndexRecord(MasterIdx(url)[n])]

DownloadIndexBody(st, url, ua) ==
    LET r == crawl_url(st, url, ua)
    IN IF IsExc(r.val) THEN r
       ELSE IF IsNone(r.val) THEN [st |-> r.st, val |-> None]
       ELSE [st |-> r.st, val |-> Some(IndexFrame(url))]

\* The two ways download_indices calls it: by keyword (lines 118-122) and
\* positionally with verbose_cache=True (lines 130-135).
IndexKey(form, url, ua) ==
    IF form = "keyword"
    THEN CacheKey("download_index", <<>>,
                  [url |-> url, user_agent |-> ua, session |-> Session])
    ELSE CacheKey("download_index", <<url, ua>>,
                  [session |-> Session, verbose_cache |-> "True"])

download_index(st, form, url, ua) ==
    LET hit == CachierLookup("download_index", IndexKey(form, url, ua), st)
    IN IF ~IsNone(hit) THEN [st |-> st, val |-> hit]
       ELSE CachierStore("download_index", IndexKey(form, url, ua),
                         DownloadIndexBody(st, url, ua))

\* ------------------------------------------------------------------------
\* download_indices, lines 74-141
\* ------------------------------------------------------------------------
\* math.ceil(month / 3)
CurrentQuarter(nw) == (nw.month + 2) \div 3

\* Lines 112-117: the quarters of one year, up to the break.
RECURSIVE QuarterUrls(_, _, _)
QuarterUrls(year, qs, nw) ==
    IF qs = <<>> THEN <<>>
    ELSE IF year = nw.year /\ Head(qs) > CurrentQuarter(nw) THEN <<>>
    ELSE <<IndexUrl(year, Head(qs))>> \o QuarterUrls(year, Tail(qs), nw)

\* Line 111: for year in range(start_year, end_year + 1)
RECURSIVE RequestedFrom(_, _, _, _)
RequestedFrom(year, end_year, qs, nw) ==
    IF year > end_year THEN <<>>
    ELSE QuarterUrls(year, qs, nw) \o RequestedFrom(year + 1, end_year, qs, nw)

Requested(req, nw) == RequestedFrom(req.start_year, req.end_year, req.quarters, nw)

ValidQuarters(qs) == \A n \in 1..Len(qs) : qs[n] \in {1, 2, 3, 4}

\* Faulty variant of RetryQueueContinues: the retry queue is never served.
RetryQueueNever(failed) == FALSE

\* line 127: len(failed_indices) > 0
RetryQueueContinues(failed) == Len(failed) > 0

\* Faulty variant of QueueAfterPass: the queue is not replaced after a pass.
QueueKept(failed, res) == failed

\* line 139: failed_indices = results
QueueAfterPass(failed, res) == res

\* pd.concat(output, ignore_index=True)
RECURSIVE Concat(_)
Concat(frames) == IF frames = <<>> THEN <<>> ELSE Head(frames) \o Concat(Tail(frames))

\* Lines 102-110: the quarters are checked and the lists start empty.
DI_Begin(req, ua) ==
    /\ request' = req /\ user_agent' = ua
    /\ output' = <<>> /\ failed_indices' = <<>> /\ results' = <<>>
    /\ IF ~ValidQuarters(req.quarters)
       THEN /\ di_result' = [state |-> "raised", df |-> <<>>]
            /\ todo' = <<>> /\ di_passes' = 0
            /\ pc' = "di_done"
       ELSE /\ di_result' = [state |-> "running", df |-> <<>>]
            /\ todo' = Requested(req, now)
            /\ di_passes' = 1
            /\ pc' = IF Requested(req, now) = <<>> THEN "di_test" ELSE "di_first"
    /\ UNCHANGED <<fold, plan, failsLeft, cache, files, now>>

\* Lines 117-125: one iteration of the first pass.
DI_First ==
    /\ pc = "di_first"
    /\ LET url == Head(todo)
           r == download_index(St, "keyword", url, user_agent)
       IN /\ IF IsNone(r.val)
             THEN failed_indices' = Append(failed_indices, url) /\ UNCHANGED output
             ELSE IF IsExc(r.val) THEN UNCHANGED <<output, failed_indices>>
             ELSE output' = Append(output, r.val[1]) /\ UNCHANGED failed_indices
          /\ cache' = r.st.cache
          /\ failsLeft' = r.st.failsLeft
          /\ fetched' = r.st.fetched
          /\ di_result' = IF IsExc(r.val) THEN [state |-> "raised", df |-> <<>>]
                          ELSE di_result
          /\ pc' = IF IsExc(r.val) THEN "di_done"
                   ELSE IF Tail(todo) = <<>> THEN "di_test" ELSE "di_first"
    /\ todo' = Tail(todo)
    /\ UNCHANGED <<fold, plan, files, deVars, calls, now, request, results, di_passes,
                   runVars, lastCall, applied>>

\* Line 127, then line 128 (a retry pass begins) or line 141 (the return).
DI_Test ==
    /\ pc = "di_test"
    /\ IF RetryQueueContinues(failed_indices)
       THEN /\ results' = <<>>
            /\ todo' = failed_indices
            /\ di_passes' = Sat(di_passes)
            /\ pc' = "di_retry"
            /\ UNCHANGED di_result
       ELSE /\ di_result' = IF output = <<>>
                            THEN [state |-> "raised", df |-> <<>>]
                            ELSE [state |-> "returned", df |-> Concat(output)]
            /\ pc' = "di_done"
            /\ UNCHANGED <<results, todo, di_passes>>
    /\ UNCHANGED <<envVars, deVars, calls, now, request, output, failed_indices,
                   runVars, lastCall, applied>>

\* Lines 129-139: one iteration of a retry pass; after the last one the retry
\* queue becomes the URLs that failed again.
DI_Retry ==
    /\ pc = "di_retry"
    /\ LET url == Head(todo)
           r == download_index(St, "positional", url, user_agent)
           res == IF IsNone(r.val) THEN Append(results, url) ELSE results
       IN /\ results' = res
          /\ output' = IF IsNone(r.val) \/ IsExc(r.val) THEN output
                       ELSE Append(output, r.val[1])
          /\ failed_indices' = IF Tail(todo) = <<>> /\ ~IsExc(r.val)
                               THEN QueueAfterPass(failed_indices, res)
                               ELSE failed_indices
          /\ cache' = r.st.cache
          /\ failsLeft' = r.st.failsLeft
          /\ fetched' = r.st.fetched
          /\ di_result' = IF IsExc(r.val) THEN [state |-> "raised", df |-> <<>>]
                          ELSE di_result
          /\ pc' = IF IsExc(r.val) THEN "di_done"
                   ELSE IF Tail(todo) = <<>> THEN "di_test" ELSE "di_retry"
    /\ todo' = Tail(todo)
    /\ UNCHANGED <<fold, plan, files, deVars, calls, now, request, di_passes,
                   runVars, lastCall, applied>>

\* ------------------------------------------------------------------------
\* Specification of the index acquisition: download_indices is called up to
\* MaxCalls times for the quarters of 2023 that have elapsed.
\* ------------------------------------------------------------------------
InitIndices ==
    /\ fold \in BOOLEAN
    /\ plan \in Plans(IndexUrls)
    /\ failsLeft = plan
    /\ cache = EmptyCache
    /\ files = <<>>
    /\ fetched = {}
    /\ pc = "idle"
    /\ calls = 0
    /\ IdleExhibits /\ IdleIndices /\ IdleRun /\ lastCall = NoCall /\ applied = NoApplied

DI_Call ==
    /\ pc \in {"idle", "di_done"}
    /\ calls < MaxCalls
    /\ calls' = calls + 1
    /\ fetched' = {}
    /\ \E ua \in UserAgents : DI_Begin(request, ua)
    /\ UNCHANGED <<records, md5, skip, exhibits, retry_rows, i, passes, writes, result,
                   entry, runVars, lastCall, applied>>

NextIndices == DI_Call \/ DI_First \/ DI_Test \/ DI_Retry

SpecIndices == InitIndices /\ [][NextIndices]_vars

SpecIndicesFair == SpecIndices /\ WF_vars(DI_First \/ DI_Test \/ DI_Retry)

\* ------------------------------------------------------------------------
\* Properties of download_indices
\* ------------------------------------------------------------------------
RequestedUrls == { Requested(request, now)[n] : n \in 1..Len(Requested(request, now)) }
IndexPlan == { plan[u] : u \in RequestedUrls }
InOutput(url) == \E n \in 1..Len(output) : output[n] = IndexFrame(url)

\* C4: when no requested index fails more than N times, download_indices makes at
\* most N+1 passes and returns; whenever it returns the retry queue is empty and
\* the index of every requested elapsed quarter is in the output; and it never
\* returns when some requested index never becomes available.
C4_IndicesConverge ==
    /\ [](Forever \notin IndexPlan => di_passes <= MaxOf(IndexPlan) + 1)
    /\ [](di_result.state = "returned" =>
              /\ failed_indices = <<>>
              /\ \A u \in RequestedUrls : InOutput(u)
              /\ Forever \notin IndexPlan)
    /\ (Forever \notin IndexPlan => []<>(pc \in {"idle", "di_done"}))

C4_Witness ==
    /\ di_result.state = "returned"
    /\ Len(output) = 2
    /\ MaxOf(IndexPlan) = MaxFails
    /\ di_passes = MaxFails + 1

\* ------------------------------------------------------------------------
\* Specification of the memoized functions: crawl_url, download_index and
\* parse_index are called, in the forms the pipeline calls them, in any order.
\* ------------------------------------------------------------------------
CallKey(f, form, url, ua) ==
    IF f = "crawl_url" THEN CrawlKey(url, ua)
    ELSE IF f = "download_index" THEN IndexKey(form, url, ua)
    ELSE ParseKey(url, ua)

Invoke(st, f, form, url, ua) ==
    IF f = "crawl_url" THEN crawl_url(st, url, ua)
    ELSE IF f = "download_index" THEN download_index(st, form, url, ua)
    ELSE parse_index(st, url, ua)

MemoCall(f, form, url, ua) ==
    LET r == Invoke([St EXCEPT !.fetched = {}], f, form, url, ua)
    IN /\ cache' = r.st.cache
       /\ failsLeft' = r.st.failsLeft
       /\ fetched' = r.st.fetched
       /\ lastCall' = [f |-> f, form |-> form, url |-> url, ua |-> ua,
                       key |-> CallKey(f, form, url, ua),
                       hit |-> CallKey(f, form, url, ua) \in DOMAIN cache[f],
                       val |-> r.val]
       /\ UNCHANGED <<fold, plan, files, pc, deVars, calls, diVars, runVars, applied>>

CallDoc == "https://www.sec.gov/Archives/edgar/data/11/ex10-1.htm"
CallIndex == IndexUrl(2023, 1)
CallPage == HtmlUrlOf(Filing1)
CallUrls == {CallDoc, CallIndex, CallPage}

CallCrawlUrl == \E ua \in UserAgents : MemoCall("crawl_url", "positional", CallDoc, ua)

CallDownloadIndex ==
    \E form \in {"keyword", "positional"}, ua \in UserAgents :
        MemoCall("download_index", form, CallIndex, ua)

CallParseIndex == \E ua \in UserAgents : MemoCall("parse_index", "positional", CallPage, ua)

\* Each URL is available at once, after one failure, or never.
CallPlans == { [u \in Urls |-> IF u \in CallUrls THEN p[u] ELSE 0] :
                   p \in [CallUrls -> {0, 1, Forever}] }

InitCalls ==
    /\ fold \in BOOLEAN
    /\ plan \in CallPlans
    /\ failsLeft = plan
    /\ cache = EmptyCache
    /\ files = <<>>
    /\ fetched = {}
    /\ pc = "idle"
    /\ calls = 0
    /\ IdleExhibits /\ IdleIndices /\ IdleRun /\ lastCall = NoCall /\ applied = NoApplied

NextCalls == CallCrawlUrl \/ CallDownloadIndex \/ CallParseIndex

SpecCalls == InitCalls /\ [][NextCalls]_vars

\* ------------------------------------------------------------------------
\* Properties of the memoized functions
\* ------------------------------------------------------------------------
\* C5 (as claimed): a call whose fetch failed leaves nothing stored under its key,
\* so that the next call with the same arguments fetches again.
C5_FailuresNeverCached ==
    [][(\E u \in fetched' : failsLeft[u] # 0) =>
           lastCall'.key \notin DOMAIN cache'[lastCall'.f]]_vars

\* C6: a call that finds a value stored under its key returns that value and
\* requests nothing from the network.
C6_HitWithoutFetch ==
    lastCall.hit =>
        /\ fetched = {}
        /\ lastCall.val = Some(cache[lastCall.f][lastCall.key])

C6_Witness ==
    /\ lastCall.hit /\ lastCall.f = "download_index"
    /\ plan[lastCall.url] > 0
    /\ fetched = {}

\* C7 (as claimed): once a call has stored a value, the same call made with any
\* other user_agent finds it: it is a cache hit and requests nothing.
C7_KeyExcludesUserAgent ==
    [][(\E ua \in UserAgents :
            CallKey(lastCall'.f, lastCall'.form, lastCall'.url, ua) \in DOMAIN cache[lastCall'.f])
          => (lastCall'.hit /\ fetched' = {})]_vars

\* ------------------------------------------------------------------------
\* filter_indices (lines 145-171) and run (lines 254-278)
\* ------------------------------------------------------------------------
DefaultFilingTypes == {"10-K", "10-Q", "8-K"}

\* Lines 152-168: the line split on "|" into its five fields, the two URLs made
\* absolute; line 170 drops the line itself.
FilingIndexRecord(r) ==
    [ cik |-> r.original.cik,
      name |-> r.original.name,
      type |-> r.original.type,
      date |-> r.original.date,
      index_text_url |-> ArchivesPrefix \o r.original.stem \o ".txt",
      index_html_url |-> ArchivesPrefix \o r.index_html_url ]

\* Lines 149-150: filing_types is None -> the default types.
TypesOrDefault(filing_types) ==
    IF IsNone(filing_types) THEN DefaultFilingTypes ELSE filing_types[1]

\* Faulty variant of filter_indices: the type test of line 169 is left out.
filter_indices_unfiltered(df, filing_types) ==
    [n \in 1..Len(df) |-> FilingIndexRecord(df[n])]

\* Faulty variant of filter_indices: the type test of line 169 is negated.
filter_indices_inverted(df, filing_types) ==
    LET all == [n \in 1..Len(df) |-> FilingIndexRecord(df[n])]
    IN SelectSeq(all, LAMBDA r : r.type \notin filing_types)

filter_indices(df, filing_types) ==
    LET all == [n \in 1..Len(df) |-> FilingIndexRecord(df[n])]
    IN SelectSeq(all, LAMBDA r : r.type \in filing_types)

PageCap == 50

\* df.index_html_url[:50]
PagesOf(df) == [n \in 1..Min(Len(df), PageCap) |-> df[n].index_html_url]

\* len(results[results.doc_content.notna()]) if results is not None else 0
Found(res) == IF IsNone(res) THEN 0 ELSE Len(res[1]) - Len(NaRows(res[1]))

\* Lines 260-267: download_indices is entered.
Run_Begin ==
    /\ pc \in {"idle", "run_done"}
    /\ calls < MaxCalls
    /\ calls' = calls + 1
    /\ fetched' = {}
    /\ curr' = 0 /\ pages' = <<>> /\ parsed' = None
    /\ DI_Begin([start_year |-> request.start_year, end_year |-> request.end_year,
                 quarters |-> DefaultQuarters], user_agent)
    /\ UNCHANGED <<records, md5, skip, exhibits, retry_rows, i, passes, writes, result,
                   entry, lastCall, applied>>

\* Lines 268-270.
Run_Filter ==
    /\ pc = "di_done"
    /\ IF di_result.state = "returned"
       THEN /\ pages' = PagesOf(filter_indices(di_result.df, TypesOrDefault(None)))
            /\ pc' = "run_loop"
       ELSE /\ pc' = "run_raised"
            /\ UNCHANGED pages
    /\ UNCHANGED <<envVars, deVars, calls, diVars, parsed, curr, lastCall, applied>>

\* Line 272.
Run_Page ==
    /\ pc = "run_loop" /\ pages # <<>>
    /\ LET r == parse_index(St, Head(pages), user_agent)
       IN /\ parsed' = r.val
          /\ cache' = r.st.cache
          /\ failsLeft' = r.st.failsLeft
          /\ fetched' = r.st.fetched
          /\ pc' = IF IsExc(r.val) THEN "run_raised" ELSE "run_parsed"
    /\ UNCHANGED <<fold, plan, files, deVars, calls, diVars, pages, curr, lastCall, applied>>

\* Lines 273-275: the page is skipped, or download_exhibits is entered.
Run_Download ==
    /\ pc = "run_parsed"
    /\ LET exhibit_urls == parsed[1][1]
           key == parsed[1][2]
       IN IF IsNone(exhibit_urls)
          THEN /\ pages' = Tail(pages)
               /\ pc' = "run_loop"
               /\ UNCHANGED <<envVars, deVars>>
          ELSE /\ DE_Begin(exhibit_urls[1], key, user_agent, TRUE, fetched)
               /\ UNCHANGED pages
    /\ UNCHANGED <<calls, diVars, parsed, curr, lastCall, applied>>

\* Lines 276-278.
Run_Count ==
    /\ pc = "returned"
    /\ curr' = curr + Found(result.value)
    /\ pages' = Tail(pages)
    /\ pc' = "run_loop"
    /\ UNCHANGED <<envVars, deVars, calls, diVars, parsed, lastCall, applied>>

Run_Finish ==
    /\ pc = "run_loop" /\ pages = <<>>
    /\ pc' = "run_done"
    /\ UNCHANGED <<envVars, deVars, calls, diVars, runVars, lastCall, applied>>

\* ------------------------------------------------------------------------
\* Specification of the pipeline: run is started up to MaxCalls times with the
\* same arguments, each time on the cache and the files the earlier runs left.
\* ------------------------------------------------------------------------
\* At most one index, one filing index page and one document fail.
RunPlans ==
    { [u \in Urls |-> IF u = a THEN x ELSE IF u = b THEN y ELSE IF u = c THEN z ELSE 0] :
          a \in IndexUrls, b \in PageUrls, c \in DocUrls,
          x \in (0..MaxFails) \cup {Forever},
          y \in (0..MaxFails) \cup {Forever},
          z \in (0..MaxFails) \cup {Forever} }

InitRun ==
    /\ fold \in BOOLEAN
    /\ plan \in RunPlans
    /\ failsLeft = plan
    /\ cache = EmptyCache
    /\ files = <<>>
    /\ fetched = {}
    /\ pc = "idle"
    /\ calls = 0
    /\ IdleExhibits /\ IdleIndices /\ IdleRun /\ lastCall = NoCall /\ applied = NoApplied

NextRun ==
    \/ Run_Begin \/ DI_First \/ DI_Test \/ DI_Retry \/ Run_Filter
    \/ Run_Page \/ Run_Download \/ DE_Test \/ DE_Retry \/ DE_Write
    \/ Run_Count \/ Run_Finish

SpecRun == InitRun /\ [][NextRun]_vars

\* ------------------------------------------------------------------------
\* Properties of the pipeline
\* ------------------------------------------------------------------------
\* C8 (as claimed): a run that follows a completed run requests nothing from the
\* network and leaves every batch file as it found it.
C8_SecondRunIdempotent ==
    [][(calls >= 2 /\ calls' = calls) => (fetched' = fetched /\ files' = files)]_vars

\* ------------------------------------------------------------------------
\* Specification of the quarter selection: download_indices is called with any
\* of a few year ranges and quarter lists, at two dates of 2023.
\* ------------------------------------------------------------------------
RequestYears == 2022..2024
QuarterLists == { <<1, 2, 3, 4>>, <<4, 1>>, <<2, 3>>, <<1, 5>> }
Nows == { [year |-> 2023, month |-> 5], [year |-> 2023, month |-> 12] }
WideIndexUrls == { IndexUrl(y, q) : y \in RequestYears, q \in 1..4 }

\* At most one index fails, once.
QuarterPlans ==
    { [u \in Urls \cup WideIndexUrls |-> IF u = a THEN x ELSE 0] :
          a \in WideIndexUrls, x \in 0..1 }

InitQuarters ==
    /\ fold \in BOOLEAN
    /\ plan \in QuarterPlans
    /\ failsLeft = plan
    /\ cache = EmptyCache
    /\ files = <<>>
    /\ fetched = {}
    /\ pc = "idle"
    /\ calls = 0
    /\ IdleExhibits /\ IdleRun /\ lastCall = NoCall /\ applied = NoApplied
    /\ now \in Nows
    /\ \E sy \in RequestYears, ey \in RequestYears, qs \in QuarterLists :
          /\ sy <= ey
          /\ request = [start_year |-> sy, end_year |-> ey, quarters |-> qs]
    /\ todo = <<>> /\ output = <<>> /\ failed_indices = <<>> /\ results = <<>>
    /\ di_passes = 0
    /\ di_result = [state |-> "none", df |-> <<>>]

SpecQuarters == InitQuarters /\ [][NextIndices]_vars

\* ------------------------------------------------------------------------
\* Properties of the quarter selection
\* ------------------------------------------------------------------------
ToSet(s) == { s[n] : n \in 1..Len(s) }

\* The period of (year, quarter) is not in the future at the date nw.
Elapsed(year, quarter, nw) ==
    year < nw.year \/ (year = nw.year /\ quarter <= CurrentQuarter(nw))

ElapsedUrls(req, nw) ==
    UNION { { IndexUrl(y, q) : q \in { k \in ToSet(req.quarters) : Elapsed(y, k, nw) } } :
                y \in req.start_year..req.end_year }

\* C11 (as claimed): the indices a call of download_indices sets out to request
\* are those of the (year, quarter) pairs of its arguments that are not in the
\* future, all of them and no others.
C11_RequestsElapsedQuarters ==
    [][(pc \in {"idle", "di_done"} /\ pc' \in {"di_first", "di_test"}) =>
           ToSet(todo') = ElapsedUrls(request', now')]_vars

\* C12: a failed request never surfaces as an exception: no stage of the pipeline
\* ends by raising, and no call of crawl_url, download_index or parse_index hands
\* an exception to its caller (a failed index is queued, a failed page is skipped,
\* a failed document is a record without content).
C12_FailureIsNotException ==
    /\ pc \notin {"run_raised", "de_raised"}
    /\ di_result.state # "raised"
    /\ ~IsExc(parsed)
    /\ ~Raises([n \in 1..Len(exhibits) |-> exhibits[n].doc_content])

C12_Witness ==
    /\ pc = "run_done" /\ calls = 1
    /\ \E u \in IndexUrls : plan[u] > 0 /\ failsLeft[u] = 0
    /\ \E u \in PageUrls : plan[u] > 0 /\ failsLeft[u] < plan[u]
    /\ \E u \in DocUrls : plan[u] > 0 /\ failsLeft[u] = 0

\* ------------------------------------------------------------------------
\* Specification of the row loop of parse_index: it is applied to a table of one
\* or two data rows, each of any of a few document types, with or without an
\* anchor in its link cell.
\* ------------------------------------------------------------------------
DocTypes == {
    <<"E", "X", "-", "1", "0">>,
    <<"e", "x", "-", "1", "0">>,
    <<"E", "X", "-", "1", "0", ".", "1">>,
    <<"E", "x", "-", "1", "0", ".", "9", "9">>,
    <<"E", "X", "-", "1", "0", "1">>,
    <<"E", "X", "-", "2">>,
    <<"E", "X", "-", "1", "0", " ">>,
    <<"1", "0", "-", "K">> }

TableRows ==
    { Row("1", "AGREEMENT", h, IF IsNone(h) THEN "" ELSE "ex10.htm", t, "4") :
          h \in {None, Some("/Archives/edgar/data/33/ex10.htm")}, t \in DocTypes }

Tables == { <<r>> : r \in TableRows } \cup { <<r1, r2>> : r1 \in TableRows, r2 \in TableRows }

InitApplied ==
    /\ fold \in BOOLEAN
    /\ plan = [u \in Urls |-> 0]
    /\ failsLeft = plan
    /\ cache = EmptyCache
    /\ files = <<>>
    /\ fetched = {}
    /\ pc = "idle"
    /\ calls = 0
    /\ IdleExhibits /\ IdleIndices /\ IdleRun /\ lastCall = NoCall

Apply(f, out) ==
    /\ applied.f = ""
    /\ applied' = [f |-> f, in |-> applied.in, out |-> out]
    /\ UNCHANGED <<envVars, pc, deVars, calls, diVars, runVars, lastCall>>

InitRows ==
    /\ InitApplied
    /\ \E t \in Tables : applied = [f |-> "", in |-> t, out |-> <<>>]

ApplyExhibitRows == Apply("parse_index", ExhibitRows(HtmlUrlOf(Filing3), applied.in))

SpecRows == InitRows /\ [][ApplyExhibitRows]_vars

\* ------------------------------------------------------------------------
\* Properties of the row loop
\* ------------------------------------------------------------------------
\* The document type, uppercased, is "EX-10" or "EX-10" followed by a dot.
IsEx10(type) ==
    /\ Len(type) >= 5
    /\ \A n \in 1..5 : UpperChar(type[n]) = Ex10[n]
    /\ Len(type) > 5 => type[6] = "."

\* The positions of the rows of a table that are to be retained.
Kept(table) == { n \in 1..Len(table) : IsEx10(table[n].type) /\ ~IsNone(table[n].href) }

\* C13: parse_index retains a row exactly when its document type, uppercased, is
\* "EX-10" or starts with "EX-10." and its link cell holds an anchor: the records
\* are those of the retained rows, in the order of the table; "EX-10", "EX-10.1"
\* and "EX-10.99" are retained in any letter case, "EX-101" and "EX-2" never.
C13_DocTypeMatching ==
    applied.f = "parse_index" =>
        /\ Len(applied.out) = Cardinality(Kept(applied.in))
        /\ \A n \in Kept(applied.in) :
               LET k == Cardinality({ m \in Kept(applied.in) : m <= n })
               IN /\ applied.out[k].doc_type.v = Join(applied.in[n].type, "")
                  /\ applied.out[k].doc_link.v = SecHost \o applied.in[n].href[1]
        /\ \A k \in 1..Len(applied.out) :
               applied.out[k].doc_type.v \in {"EX-10", "ex-10", "EX-10.1", "Ex-10.99"}

C13_Witness ==
    /\ applied.f = "parse_index"
    /\ Len(applied.in) = 2 /\ Len(applied.out) = 1
    /\ applied.in[1].type = <<"E", "X", "-", "1", "0", "1">>
    /\ applied.in[2].type = <<"E", "x", "-", "1", "0", ".", "9", "9">>
    /\ applied.out[1].doc_type.v = "Ex-10.99"

\* ------------------------------------------------------------------------
\* Properties of the pipeline: provenance of the exhibit records
\* ------------------------------------------------------------------------
AllFilings == UNION { ToSet(MasterIdx(u)) : u \in IndexUrls }

\* The pages of the filings whose type the filter allows.
FilteredPages == { HtmlUrlOf(f) : f \in { g \in AllFilings : g.type \in DefaultFilingTypes } }

PageOfEach(df, page) == \A n \in 1..Len(df) : df[n].index_html_url.v = page

\* C14: the orchestrator visits only pages of filing index records that passed
\* the type filter, and every exhibit record located for a page, downloaded for it
\* or written to its batch file carries the URL of that page.
C14_RecordsOfFilteredPages ==
    /\ ToSet(pages) \subseteq FilteredPages
    /\ (pc = "run_parsed" /\ ~IsNone(parsed[1][1])) => PageOfEach(parsed[1][1][1], Head(pages))
    /\ pc \in {"de_test", "de_retry", "de_write", "returned"} =>
           /\ PageOfEach(records, Head(pages))
           /\ PageOfEach(exhibits, Head(pages))
    /\ \A k \in DOMAIN files :
           \E page \in FilteredPages :
               /\ k = Md5(page)
               /\ \A n \in 1..Len(files[k]) : files[k][n].index_html_url.v = page

C14_Witness ==
    /\ pc = "run_done" /\ calls = 1
    /\ Md5(HtmlUrlOf(Filing1)) \in DOMAIN files
    /\ Md5(HtmlUrlOf(Filing3)) \in DOMAIN files
    /\ Len(files[Md5(HtmlUrlOf(Filing1))]) = 3

\* ------------------------------------------------------------------------
\* Specification of the filter: filter_indices is applied to a frame of one to
\* three index records, with filing_types left out or given.
\* ------------------------------------------------------------------------
MaxFrame == 3

IndexRecords == { IndexRecord(f) : f \in AllFilings }

Frames == UNION { [1..n -> IndexRecords] : n \in 1..MaxFrame }

TypeLists == { None, Some({"4"}), Some({"10-K"}), Some({"10-K", "10-Q", "8-K"}), Some({}) }

InitFilter ==
    /\ InitApplied
    /\ \E df \in Frames, ft \in TypeLists :
          applied = [f |-> "", in |-> [df |-> df, filing_types |-> ft], out |-> <<>>]

ApplyFilter ==
    Apply("filter_indices",
          filter_indices(applied.in.df, TypesOrDefault(applied.in.filing_types)))

SpecFilter == InitFilter /\ [][ApplyFilter]_vars

\* ------------------------------------------------------------------------
\* Properties of the filter
\* ------------------------------------------------------------------------
\* The types a call allows, as the claim states them.
Allowed(ft) == IF ft = None THEN {"10-K", "10-Q", "8-K"} ELSE ft[1]

\* The positions of the records of a frame whose type is allowed.
Passing(df, ft) == { n \in 1..Len(df) : df[n].original.type \in Allowed(ft) }

\* C15: filter_indices retains exactly the records whose filing type is among
\* the allowed types (10-K, 10-Q, 8-K when none are given), in their order and
\* with the fields of their line: a 10-K record is retained under the default
\* types and dropped under the types [4].
C15_FilterRetainsAllowedTypes ==
    applied.f = "filter_indices" =>
        LET df == applied.in.df
            ft == applied.in.filing_types
        IN /\ Len(applied.out) = Cardinality(Passing(df, ft))
           /\ \A n \in Passing(df, ft) :
                  LET k == Cardinality({ m \in Passing(df, ft) : m <= n })
                  IN /\ applied.out[k].type = df[n].original.type
                     /\ applied.out[k].cik = df[n].original.cik
                     /\ applied.out[k].index_html_url = HtmlUrlOf(df[n].original)
           /\ \A k \in 1..Len(applied.out) : applied.out[k].type \in Allowed(ft)
           /\ \A n \in 1..Len(df) :
                  df[n].original.type = "10-K" =>
                      /\ ft \in {None, Some({"10-K", "10-Q", "8-K"})} =>
                             \E k \in 1..Len(applied.out) : applied.out[k].type = "10-K"
                      /\ ft = Some({"4"}) =>
                             \A k \in 1..Len(applied.out) : applied.out[k].type # "10-K"

C15_Witness ==
    /\ applied.f = "filter_indices"
    /\ applied.in.filing_types = None
    /\ Len(applied.in.df) = 2
    /\ applied.in.df[1].original.type = "4"
    /\ applied.in.df[2].original.type = "10-K"
    /\ Len(applied.out) = 1 /\ applied.out[1].type = "10-K"

\* ------------------------------------------------------------------------
\* ExhibitSpider.parse_index_html, exhibit_spider.py lines 70-106
\* ------------------------------------------------------------------------
\* response.meta as ExhibitSpider.parse_index sets it, lines 58-65
SpiderMeta(f) ==
    [ cik |-> f.cik, name |-> f.name, type |-> f.type, filing_date |-> f.date,
      index_text_url |-> TextUrlOf(f), index_html_url |-> HtmlUrlOf(f) ]

\* The headers parse_metadata may find above the table, in page order.
MetaHeaders == <<"Filing Date", "Period of Report">>

\* json.dumps of a dict of strings, its keys in insertion order
RECURSIVE JsonItems(_, _)
JsonItems(md, hs) ==
    IF hs = <<>> THEN <<>>
    ELSE IF Head(hs) \in DOMAIN md
         THEN <<"\"" \o Head(hs) \o "\": \"" \o md[Head(hs)] \o "\"">> \o JsonItems(md, Tail(hs))
         ELSE JsonItems(md, Tail(hs))

JsonDumps(md) == "{" \o Join(JsonItems(md, MetaHeaders), ", ") \o "}"

\* Lines 91-106: the item of a row; the failure is the KeyError of
\* metadata["Period of Report"].
SpiderItem(meta, md, row) ==
    IF "Period of Report" \notin DOMAIN md THEN Exc
    ELSE Some([ index_html_url |-> meta.index_html_url,
                index_text_url |-> meta.index_text_url,
                cik |-> meta.cik,
                name |-> meta.name,
                type |-> meta.type,
                filing_date |-> meta.filing_date,
                report_date |-> md["Period of Report"],
                seq |-> row.seq,
                desc |-> row.desc,
                doc_type |-> Join(Upper(row.type), ""),
                size |-> row.size,
                filename |-> row.text,
                file_urls |-> <<SecHost \o row.href[1]>>,
                filing_metadata |-> JsonDumps(md) ])

\* Lines 82-106: the loop over the rows.  doc_link.css("a").attrib is the empty
\* dict for a link cell without an anchor, so line 87 raises KeyError there; the
\* items yielded before stay yielded, the rows after are not reached.
RECURSIVE SpiderRows(_, _, _)
SpiderRows(meta, md, rows) ==
    IF rows = <<>> THEN [items |-> <<>>, raised |-> FALSE]
    ELSE LET row == Head(rows)
             rest == SpiderRows(meta, md, Tail(rows))
         IN IF ~DocTypeMatches(row.type) THEN rest
            ELSE IF IsNone(row.href) THEN [items |-> <<>>, raised |-> TRUE]
            ELSE IF IsExc(SpiderItem(meta, md, row)) THEN [items |-> <<>>, raised |-> TRUE]
            ELSE [items |-> <<SpiderItem(meta, md, row)[1]>> \o rest.items,
                  raised |-> rest.raised]

\* Lines 72-81: no table of class tableFile, or no metadata -> nothing is emitted.
parse_index_html(meta, page) ==
    IF ~page.table THEN [items |-> <<>>, raised |-> FALSE]
    ELSE IF IsNone(page.metadata) THEN [items |-> <<>>, raised |-> FALSE]
    ELSE SpiderRows(meta, page.metadata[1], page.rows)

\* ------------------------------------------------------------------------
\* Specification of the two locators: parse_index_html of the spider and the
\* page part of parse_index of run.py are applied to the same page.
\* ------------------------------------------------------------------------
Metadatas ==
    { None,
      Some([h \in {"Filing Date"} |-> "2023-05-03"]),
      Some([h \in {"Filing Date", "Period of Report"} |-> "2023-05-03"]) }

FilingPages ==
    { [table |-> tb, metadata |-> md, rows |-> rows] :
          tb \in BOOLEAN, md \in Metadatas, rows \in Tables }

InitSpider ==
    /\ InitApplied
    /\ \E page \in FilingPages : applied = [f |-> "", in |-> page, out |-> <<>>]

ApplyLocators ==
    Apply("parse_index_html",
          [ spider |-> parse_index_html(SpiderMeta(Filing3), applied.in),
            locator |-> LocatedOn(HtmlUrlOf(Filing3), applied.in) ])

SpecSpider == InitSpider /\ [][ApplyLocators]_vars

\* ------------------------------------------------------------------------
\* Properties of the two locators
\* ------------------------------------------------------------------------
\* The document links of the rows that parse_index of run.py retains.
LocatorLinks(located) ==
    IF IsNone(located) THEN <<>>
    ELSE [n \in 1..Len(located[1]) |-> located[1][n].doc_link.v]

SpiderLinks(items) == [n \in 1..Len(items) |-> items[n].file_urls[1]]

\* C16 (as claimed): on the same page the spider emits items for exactly the rows
\* for which parse_index of run.py emits records, and ends without error.
C16_SpiderEmitsSameRows ==
    applied.f = "parse_index_html" =>
        /\ ~applied.out.spider.raised
        /\ SpiderLinks(applied.out.spider.items) = LocatorLinks(applied.out.locator)

\* ------------------------------------------------------------------------
\* Properties of download_exhibits: whose content a record holds
\* ------------------------------------------------------------------------
OwnContent(df) == \A n \in 1..Len(df) : df[n].doc_content.v = Content(df[n].doc_link.v)

\* C17 (as claimed): when a call has written the batch and returned, every record
\* holds the content served at its own doc_link, in the frame returned and in the
\* file written.
C17_OwnContent ==
    (Returned /\ writes = 1) =>
        /\ OwnContent(result.value[1])
        /\ \A n \in 1..Len(files[md5]) :
               files[md5][n].doc_content.v = Content(files[md5][n].doc_link.v)

\* ------------------------------------------------------------------------
\* Properties of download_indices: the bookkeeping of the passes
\* ------------------------------------------------------------------------
Count(s, x) == Cardinality({ n \in 1..Len(s) : s[n] = x })

\* C18: between passes every index URL the call requests is either in the retry
\* queue or has its index in the output, exactly once in all; when the call
\* returns the queue is empty and the output holds one index per requested URL.
C18_EachIndexOnce ==
    /\ pc = "di_test" =>
           /\ \A u \in RequestedUrls :
                  Count(failed_indices, u) + Count(output, IndexFrame(u)) = 1
           /\ Len(failed_indices) + Len(output) = Cardinality(RequestedUrls)
    /\ di_result.state = "returned" =>
           /\ failed_indices = <<>>
           /\ Len(output) = Cardinality(RequestedUrls)
           /\ \A u \in RequestedUrls : Count(output, IndexFrame(u)) = 1

C18_Witness ==
    /\ pc = "di_test" /\ di_passes = 2
    /\ Len(failed_indices) = 1 /\ Len(output) = 1
    /\ fetched = RequestedUrls

\* ------------------------------------------------------------------------
\* Properties of download_indices: the two call forms of download_index
\* ------------------------------------------------------------------------
Stored(form, url, ua) == IndexKey(form, url, ua) \in DOMAIN cache["download_index"]

\* C19 (as claimed): the key of the retry form of the call is the key of the
\* first-attempt form, so when a first pass comes to a URL whose index a retry
\* with the same arguments has stored, the first-attempt form finds it stored.
C19_RetryKeyIsFirstAttemptKey ==
    (pc = "di_first" /\ Stored("positional", Head(todo), user_agent)) =>
        /\ IndexKey("positional", Head(todo), user_agent)
               = IndexKey("keyword", Head(todo), user_agent)
        /\ Stored("keyword", Head(todo), user_agent)

\* ------------------------------------------------------------------------
\* The item pipeline: WebPagePipeline.item_completed builds an ExhibitItem
\* from every item the spider yields and the results of its file downloads.
\* ------------------------------------------------------------------------
\* items.py lines 11-23: the fields ExhibitItem declares.
ExhibitItemFields ==
    { "index_html_url", "index_text_url", "cik", "name", "type", "date", "seq",
      "desc", "doc_type", "size", "filename", "file_url", "file" }

\* scrapy.Item.__init__ assigns every keyword through __setitem__, which raises
\* KeyError for a key that is not a declared field.
ExhibitItem(kwargs) ==
    IF DOMAIN kwargs \subseteq ExhibitItemFields THEN Some(kwargs) ELSE Exc

\* pipelines.py lines 33-47: the keys item_completed reads from the adapter.
AdapterKeys ==
    { "index_html_url", "index_text_url", "cik", "name", "type", "filing_date",
      "report_date", "seq", "desc", "doc_type", "size", "filename", "file_urls",
      "filing_metadata" }

\* Line 30: the paths of the downloads that succeeded, in order.
RECURSIVE FilePaths(_)
FilePaths(rs) ==
    IF rs = <<>> THEN <<>>
    ELSE IF Head(rs).ok THEN <<Head(rs).path>> \o FilePaths(Tail(rs))
         ELSE FilePaths(Tail(rs))

\* Lines 29-48.  Reading a key the item lacks raises KeyError while the
\* arguments are evaluated; the constructor then raises for an undeclared field.
item_completed(rs, item) ==
    LET file_paths == FilePaths(rs)
    IN IF ~(AdapterKeys \subseteq DOMAIN item) THEN Exc
       ELSE ExhibitItem(
              [ index_html_url |-> item.index_html_url,
                index_text_url |-> item.index_text_url,
                cik |-> item.cik,
                name |-> item.name,
                type |-> item.type,
                filing_date |-> item.filing_date,
                report_date |-> item.report_date,
                seq |-> item.seq,
                desc |-> item.desc,
                doc_type |-> item.doc_type,
                size |-> item.size,
                filename |-> item.filename,
                file_url |-> IF item.file_urls # <<>> THEN Some(item.file_urls[1]) ELSE None,
                file |-> IF file_paths # <<>>
                         THEN Some("gs://sec-exhibit10/files/" \o file_paths[1])
                         ELSE None,
                filing_metadata |-> item.filing_metadata ])

\* The results FilesPipeline hands over for the one URL of file_urls: the
\* download succeeded, failed, or nothing was downloaded.
DownloadResults ==
    { <<>>, <<[ok |-> TRUE, path |-> "full/ex10.htm"]>>, <<[ok |-> FALSE, path |-> ""]>> }

InitItems ==
    /\ InitApplied
    /\ \E page \in FilingPages, rs \in DownloadResults :
           applied = [f |-> "", in |-> [page |-> page, results |-> rs], out |-> <<>>]

\* The items the spider yields from the page.
YieldedItems == parse_index_html(SpiderMeta(Filing3), applied.in.page).items

\* Every yielded item goes through the pipeline.
ApplyItemCompleted ==
    Apply("item_completed",
          [n \in 1..Len(YieldedItems) |-> item_completed(applied.in.results, YieldedItems[n])])

SpecItems == InitItems /\ [][ApplyItemCompleted]_vars

\* C20 (as claimed): every key item_completed reads is in the item the spider
\* yielded and every field it sets is declared by ExhibitItem, so for every
\* yielded item it returns an ExhibitItem and raises nothing.
C20_ItemCompletedYieldsExhibitItem ==
    applied.f = "item_completed" =>
        \A n \in 1..Len(YieldedItems) :
            /\ AdapterKeys \subseteq DOMAIN YieldedItems[n]
            /\ ~IsExc(applied.out[n])
            /\ DOMAIN applied.out[n][1] \subseteq ExhibitItemFields

====
